---- MODULE Spec2Model ----
(***************************************************************************)
(* A model of genco's token stream (src/src/tokens/tokens.rs): the Tokens  *)
(* container with its insertion operations, and Tokens::format, the        *)
(* single pass that renders a stream through a Formatter and the Lang      *)
(* hooks.                                                                  *)
(*                                                                         *)
(* A stream is built by a producer (pc = "build") and then handed to       *)
(* format, which ends with Ok (pc = "done") or with a formatting fault     *)
(* (pc = "fault").                                                         *)
(*                                                                         *)
(* Spec and SpecCalls build streams call by call and run format as one     *)
(* step.  SpecLayout and SpecQuote start from a finished stream and run    *)
(* format one loop iteration at a time (pc = "format").                    *)
(***************************************************************************)
EXTENDS Integers, Sequences, FiniteSets, TLC

\* ------------------------------------------------------------------------
\* Bounds of the model.

\* Longest stream the producer builds.
MaxLen == 3
\* Longest item sequence handed to one extend() call.
MaxExt == 2
\* Largest number of consecutive space() calls compared with a single one.
MaxSpaceCalls == 3
\* Largest absolute delta the producer lets an Indentation item reach.
MaxDelta == 2
\* Longest sequence of producer calls behind a stream handed to the
\* stepwise format.
MaxCalls == 5
\* Longest stream of quote, eval and language items handed to the stepwise
\* format.
MaxQuoteLen == 5
\* Longest stream of language items rendered as a file.
MaxFileLen == 3
\* Longest string handed to quote_string.
MaxStrLen == 3
MaxWrap == 2

\* ------------------------------------------------------------------------
\* Items (enum Item<L>).  One record shape for every variant: k is the
\* variant, s the text of a Literal or the name of a language item, n the
\* delta of an Indentation, e the has-interpolation flag of an OpenQuote.

Item(k, s, n, e) == [k |-> k, s |-> s, n |-> n, e |-> e]

Literal(s)     == Item("Literal", s, 0, FALSE)
OpenQuote(e)   == Item("OpenQuote", "", 0, e)
CloseQuote     == Item("CloseQuote", "", 0, FALSE)
Space          == Item("Space", "", 0, FALSE)
Push           == Item("Push", "", 0, FALSE)
Line           == Item("Line", "", 0, FALSE)
Indentation(n) == Item("Indentation", "", n, FALSE)
OpenEval       == Item("OpenEval", "", 0, FALSE)
CloseEval      == Item("CloseEval", "", 0, FALSE)
LangBox(s)     == Item("LangBox", s, 0, FALSE)
Registered(s)  == Item("Registered", s, 0, FALSE)

\* Literal texts the producer uses; each is one character.
Texts == {"a", "b"}
\* Names of the language items the producer uses.
LangNames == {"T"}

\* The items a producer hands to item().
ItemInputs ==
    {Literal("a"), Space, Push, Line, OpenQuote(TRUE), CloseQuote}
    \cup {Indentation(n) : n \in {-1, 1}}
    \cup {LangBox(s) : s \in LangNames}
    \cup {Registered(s) : s \in LangNames}

\* The items a producer hands to extend(): the whitespace directives, and
\* one item of those item() appends as they are.
ExtendItems ==
    {Space, Push, Line, Indentation(1), Indentation(-1), Literal("a")}

Last(its) == its[Len(its)]
Front(its) == SubSeq(its, 1, Len(its) - 1)
EndsWith(its, k) == its # <<>> /\ Last(its).k = k

\* ------------------------------------------------------------------------
\* Tokens: the insertion operations, as functions from the item vector to
\* the item vector they leave behind.

\* space() without the look at the last item.
space_unchecked(its) == Append(its, Space)

\* Tokens::space
space(its) ==
    IF EndsWith(its, "Space") THEN its ELSE Append(its, Space)

\* push() without the look at the last item.
push_unchecked(its) == Append(its, Push)

\* push() that looks for a trailing Push only.
push_after_line(its) ==
    IF EndsWith(its, "Push") THEN its ELSE Append(its, Push)

\* Tokens::push
push(its) ==
    IF EndsWith(its, "Push") \/ EndsWith(its, "Line")
    THEN its
    ELSE Append(its, Push)

\* line() that leaves the last item in place.
line_append(its) == Append(its, Line)

\* line() that absorbs a trailing Push only.
line_stacking(its) ==
    IF EndsWith(its, "Push") THEN Append(Front(its), Line)
    ELSE Append(its, Line)

\* line() that follows a trailing Push instead of replacing it.
line_after_push(its) ==
    IF EndsWith(its, "Line") THEN its ELSE Append(its, Line)

\* Tokens::line
line(its) ==
    IF its = <<>> THEN <<Line>>
    ELSE IF Last(its).k \in {"Push", "Line"} THEN Append(Front(its), Line)
    ELSE Append(its, Line)

\* The step that stores the delta whatever it is, zero included.
PushZero(its, n) == Append(its, Indentation(n))

\* NonZeroI16::new(n) followed by `if let Some(n) = n { items.push(..) }`
PushNonZero(its, n) ==
    IF n = 0 THEN its ELSE Append(its, Indentation(n))

\* i16 arithmetic as a release build computes it: the result wraps (a
\* build with overflow checks panics instead of wrapping).
WrapI16(x) == ((x + 32768) % 65536) - 32768

\* indent() that never looks at the last item.
indent_append(its) == Append(its, Indentation(1))

\* Tokens::indent
indent(its) ==
    IF EndsWith(its, "Indentation")
    THEN PushNonZero(Front(its), WrapI16(Last(its).n + 1))
    ELSE PushNonZero(its, 1)

\* Tokens::unindent
unindent(its) ==
    IF EndsWith(its, "Indentation")
    THEN PushNonZero(Front(its), WrapI16(Last(its).n - 1))
    ELSE PushNonZero(its, -1)

\* Tokens::item
item(its, it) ==
    CASE it.k = "Push"  -> push(its)
      [] it.k = "Line"  -> line(its)
      [] it.k = "Space" -> space(its)
      [] OTHER          -> Append(its, it)

\* Tokens::literal
literal(its, s) == item(its, Literal(s))

\* Tokens::quoted
quoted(its, s) ==
    item(item(item(its, OpenQuote(FALSE)), Literal(s)), CloseQuote)

\* extend() that moves the items over as they are.
extend_raw(its, it) == its \o it

\* Tokens::extend
RECURSIVE extend(_, _)
extend(its, it) ==
    IF it = <<>> THEN its
    ELSE extend(item(its, Head(it)), Tail(it))

\* FromIterator<Item<L>> for Tokens<L>: with_capacity, then extend.
from_iter(it) == extend(<<>>, it)

\* Tokens::is_empty
is_empty(its) == its = <<>>

\* Names of the language items that are local names, not imports.
LocalNames == {"v"}

\* The JavaScript language items (struct Import, ImportDefault, Local).  An
\* absent alias is the empty string.
Import(module, name, alias) ==
    [t |-> "Import", module |-> module, name |-> name, alias |-> alias]
ImportDefault(module, name) ==
    [t |-> "ImportDefault", module |-> module, name |-> name, alias |-> ""]
Local(name) ==
    [t |-> "Local", module |-> "", name |-> name, alias |-> ""]

\* The language item behind each name a stream refers to.  The name is the
\* text the item writes: the alias of an aliased import, else its name.
LangItemOf(s) ==
    CASE s = "x" -> Import("m", "x", "")
      [] s = "y" -> Import("m", "y", "")
      [] s = "z" -> Import("m", "x", "z")
      [] s = "d" -> ImportDefault("m", "d")
      [] s = "e" -> ImportDefault("m", "e")
      [] s = "p" -> Import("n", "p", "")
      [] s = "r" -> Import("o", "r", "")
      [] s = "T" -> Import("t", "T", "")
      [] OTHER   -> Local(s)

\* The names of the imports a file refers to.
ImportNames == {"x", "y", "z", "d", "e", "p", "r"}

\* LangItem::as_import: Some(self) for an import, None for a local name
\* (an Option as a sequence of at most one element).
as_import(s) == IF LangItemOf(s).t = "Local" THEN <<>> ELSE <<s>>

\* walk_imports() that looks into the rendered language items only.
RECURSIVE walk_imports_boxed(_)
walk_imports_boxed(its) ==
    IF its = <<>> THEN <<>>
    ELSE (IF Head(its).k = "LangBox" THEN as_import(Head(its).s) ELSE <<>>)
            \o walk_imports_boxed(Tail(its))

\* walk_imports() that yields every import once.
RECURSIVE walk_imports_once(_)
walk_imports_once(its) ==
    IF its = <<>> THEN <<>>
    ELSE LET rest == walk_imports_once(Front(its))
             here == IF Last(its).k \in {"LangBox", "Registered"}
                     THEN as_import(Last(its).s)
                     ELSE <<>>
         IN  IF here # <<>> /\ \E i \in 1..Len(rest) : rest[i] = here[1]
             THEN rest
             ELSE rest \o here

\* Tokens::walk_imports, collected: the imports WalkImports::next yields
\* until it returns None.
RECURSIVE walk_imports(_)
walk_imports(its) ==
    IF its = <<>> THEN <<>>
    ELSE (IF Head(its).k \in {"LangBox", "Registered"}
          THEN as_import(Head(its).s)
          ELSE <<>>)
            \o walk_imports(Tail(its))

\* ------------------------------------------------------------------------
\* Formatter (fmt::Formatter): the sink with its pending layout state.  line
\* is what is owed before the next write ("Initial" before anything was
\* written, "None", "Push" for a line break, "Line" for a line break and an
\* empty line), spaces the number of pending spaces, indent the current
\* indentation level, out the characters written so far.

\* Width of one indentation level (fmt::Config default, four spaces).
IndentUnit == 4

NewFormatter == [line |-> "Initial", spaces |-> 0, indent |-> 0, out |-> <<>>]

\* Formatter::push
fmt_push(k) ==
    IF k.line \in {"Initial", "Line"} THEN k
    ELSE [k EXCEPT !.line = "Push", !.spaces = 0]

\* Formatter::line
fmt_line(k) ==
    IF k.line = "Initial" THEN k
    ELSE [k EXCEPT !.line = "Line", !.spaces = 0]

\* Formatter::space
fmt_space(k) == [k EXCEPT !.spaces = @ + 1]

\* Formatter::indentation
fmt_indentation(k, n) == [fmt_push(k) EXCEPT !.indent = @ + n]

Max(a, b) == IF a >= b THEN a ELSE b

Spaces(n) == [i \in 1..n |-> " "]

\* Formatter::flush_whitespace: the owed line breaks, then the indentation
\* of a fresh line clamped at zero, then the pending spaces.
flush_whitespace(k) ==
    LET breaks == CASE k.line = "Push" -> <<"\n">>
                    [] k.line = "Line" -> <<"\n", "\n">>
                    [] OTHER -> <<>>
        margin == IF k.line = "None" THEN 0 ELSE Max(k.indent, 0) * IndentUnit
    IN  [k EXCEPT !.out = @ \o breaks \o Spaces(margin + k.spaces),
                  !.line = "None",
                  !.spaces = 0]

\* Formatter::write_str
write_str(k, text) ==
    IF text = <<>> THEN k
    ELSE [flush_whitespace(k) EXCEPT !.out = @ \o text]

\* ------------------------------------------------------------------------
\* Lang hooks, as the text each writes (the JavaScript specialization).

\* The characters U+0007 and U+0014, which a TLA+ string cannot hold.
Char07 == "U+0007"
Char14 == "U+0014"

\* Lang::write_quoted for a one-character literal: the escape JavaScript's
\* quote_string writes for the character.
write_quoted(s) ==
    CASE s = "\t"   -> <<"\\", "t">>
      [] s = Char07 -> <<"\\", "b">>
      [] s = "\n"   -> <<"\\", "n">>
      [] s = "\r"   -> <<"\\", "r">>
      [] s = Char14 -> <<"\\", "f">>
      [] s = "'"    -> <<"\\", "'">>
      [] s = "\""   -> <<"\\", "\"">>
      [] s = "\\"   -> <<"\\", "\\">>
      [] OTHER      -> <<s>>

\* The backtick character, which a TLA+ string cannot hold.
Backtick == "backtick"

\* Lang::open_quote
open_quote(has_eval) == IF has_eval THEN <<Backtick>> ELSE <<"\"">>

\* Lang::close_quote
close_quote(has_eval) == IF has_eval THEN <<Backtick>> ELSE <<"\"">>

\* Lang::string_eval_literal
string_eval_literal(s) == <<"$", "{", s, "}">>

\* Lang::start_string_eval
start_string_eval == <<"$", "{">>

\* Lang::end_string_eval
end_string_eval == <<"}">>

\* LangItem::format: a language item writes its name.
lang_format(s) == <<s>>

\* ------------------------------------------------------------------------
\* Tokens::format.  The state of a call: cur is the number of items the
\* cursor has consumed, stack the frame stack, sink the Formatter, calls
\* the Lang hooks called so far, res "run", "ok" or "err".

Frame(q, h, e) == [in_quote |-> q, has_eval |-> h, end_on_eval |-> e]

\* Frame::default()
FrameDefault == Frame(FALSE, FALSE, FALSE)

\* One Lang hook call: the hook, its interpolation flag, its literal.
HookCall(h, e, s) == [h |-> h, e |-> e, s |-> s]

\* The state before format was called.
NoFormat ==
    [cur |-> 0, stack |-> <<>>, sink |-> NewFormatter, calls |-> <<>>,
     res |-> "none"]

\* The state on entry to the loop: a fresh cursor and one default frame.
FormatEnter(k) ==
    [cur |-> 0, stack |-> <<FrameDefault>>, sink |-> k, calls |-> <<>>,
     res |-> "run"]

\* st after a hook call that writes text.
Hooked(st, call, text) ==
    [st EXCEPT !.calls = Append(@, call), !.sink = write_str(@, text)]

\* st with its top frame replaced.
WithTop(st, fr) == [st EXCEPT !.stack[Len(st.stack)] = fr]

\* The peek that looks for the Literal only.
PeekLiteral(its, cur) ==
    /\ cur + 1 <= Len(its)
    /\ its[cur + 1].k = "Literal"

\* cursor.peek::<Literal>() && cursor.peek1::<CloseEval>()
PeekLiteralCloseEval(its, cur) ==
    /\ cur + 2 <= Len(its)
    /\ its[cur + 1].k = "Literal"
    /\ its[cur + 2].k = "CloseEval"

\* The whitespace arms writing a line break at once.
Whitespace_eager(it, k) ==
    CASE it.k = "Push"  -> [k EXCEPT !.out = @ \o <<"\n">>]
      [] it.k = "Line"  -> [k EXCEPT !.out = @ \o <<"\n", "\n">>]
      [] it.k = "Space" -> fmt_space(k)
      [] OTHER          -> fmt_indentation(k, it.n)

\* The whitespace arms with out.line() called for a Push.
Whitespace_push_as_line(it, k) ==
    CASE it.k = "Push"  -> fmt_line(k)
      [] it.k = "Line"  -> fmt_line(k)
      [] it.k = "Space" -> fmt_space(k)
      [] OTHER          -> fmt_indentation(k, it.n)

\* The whitespace arms with out.push() called for a Line.
Whitespace_line_as_push(it, k) ==
    CASE it.k = "Push"  -> fmt_push(k)
      [] it.k = "Line"  -> fmt_push(k)
      [] it.k = "Space" -> fmt_space(k)
      [] OTHER          -> fmt_indentation(k, it.n)

\* The whitespace arms dropping an Indentation that would take the level
\* below zero.
Whitespace_clamped(it, k) ==
    CASE it.k = "Push"  -> fmt_push(k)
      [] it.k = "Line"  -> fmt_line(k)
      [] it.k = "Space" -> fmt_space(k)
      [] OTHER          -> IF k.indent + it.n < 0
                           THEN fmt_push(k)
                           ELSE fmt_indentation(k, it.n)

\* The whitespace arms with an Indentation that changes the level only.
Whitespace_no_push(it, k) ==
    CASE it.k = "Push"  -> fmt_push(k)
      [] it.k = "Line"  -> fmt_line(k)
      [] it.k = "Space" -> fmt_space(k)
      [] OTHER          -> [k EXCEPT !.indent = @ + it.n]

\* The whitespace arms of the match: Push, Line, Space, Indentation.
Whitespace(it, k) ==
    CASE it.k = "Push"  -> fmt_push(k)
      [] it.k = "Line"  -> fmt_line(k)
      [] it.k = "Space" -> fmt_space(k)
      [] OTHER          -> fmt_indentation(k, it.n)

WhitespaceKinds == {"Push", "Line", "Space", "Indentation"}

\* The match with a CloseQuote arm that has no `if *in_quote` guard.
FormatItem_lenient(its, st) ==
    LET it == its[st.cur + 1]
        head == Last(st.stack)
        nx == [st EXCEPT !.cur = @ + 1]
    IN  CASE it.k = "Registered" -> nx
          [] it.k = "Literal" ->
                IF head.in_quote
                THEN Hooked(nx, HookCall("write_quoted", FALSE, it.s),
                            write_quoted(it.s))
                ELSE [nx EXCEPT !.sink = write_str(@, <<it.s>>)]
          [] it.k = "OpenQuote" /\ ~head.in_quote ->
                Hooked(WithTop(nx, [head EXCEPT !.has_eval = it.e,
                                                !.in_quote = TRUE]),
                       HookCall("open_quote", it.e, ""), open_quote(it.e))
          [] it.k = "CloseQuote" ->
                Hooked(WithTop(nx, [head EXCEPT !.in_quote = FALSE,
                                                !.has_eval = FALSE]),
                       HookCall("close_quote", head.has_eval, ""),
                       close_quote(head.has_eval))
          [] it.k = "LangBox" ->
                [nx EXCEPT !.sink = write_str(@, lang_format(it.s))]
          [] it.k \in WhitespaceKinds ->
                [nx EXCEPT !.sink = Whitespace(it, @)]
          [] it.k = "OpenEval" /\ head.in_quote ->
                IF PeekLiteralCloseEval(its, nx.cur)
                THEN Hooked([nx EXCEPT !.cur = @ + 2],
                            HookCall("string_eval_literal", FALSE,
                                     its[nx.cur + 1].s),
                            string_eval_literal(its[nx.cur + 1].s))
                ELSE LET h == Hooked(nx, HookCall("start_string_eval",
                                                  FALSE, ""),
                                     start_string_eval)
                     IN  [h EXCEPT !.stack =
                              Append(@, Frame(FALSE, FALSE, TRUE))]
          [] it.k = "CloseEval" /\ head.end_on_eval ->
                LET h == Hooked(nx, HookCall("end_string_eval", FALSE, ""),
                                end_string_eval)
                IN  [h EXCEPT !.stack = Front(@)]
          [] OTHER -> [nx EXCEPT !.res = "err"]

\* The match with a Literal arm that looks at the first frame of the
\* stack.
FormatItem_bottom_quote(its, st) ==
    LET it == its[st.cur + 1]
        head == Last(st.stack)
        nx == [st EXCEPT !.cur = @ + 1]
    IN  CASE it.k = "Registered" -> nx
          [] it.k = "Literal" ->
                IF st.stack[1].in_quote
                THEN Hooked(nx, HookCall("write_quoted", FALSE, it.s),
                            write_quoted(it.s))
                ELSE [nx EXCEPT !.sink = write_str(@, <<it.s>>)]
          [] it.k = "OpenQuote" /\ ~head.in_quote ->
                Hooked(WithTop(nx, [head EXCEPT !.has_eval = it.e,
                                                !.in_quote = TRUE]),
                       HookCall("open_quote", it.e, ""), open_quote(it.e))
          [] it.k = "CloseQuote" /\ head.in_quote ->
                Hooked(WithTop(nx, [head EXCEPT !.in_quote = FALSE,
                                                !.has_eval = FALSE]),
                       HookCall("close_quote", head.has_eval, ""),
                       close_quote(head.has_eval))
          [] it.k = "LangBox" ->
                [nx EXCEPT !.sink = write_str(@, lang_format(it.s))]
          [] it.k \in WhitespaceKinds ->
                [nx EXCEPT !.sink = Whitespace(it, @)]
          [] it.k = "OpenEval" /\ head.in_quote ->
                IF PeekLiteralCloseEval(its, nx.cur)
                THEN Hooked([nx EXCEPT !.cur = @ + 2],
                            HookCall("string_eval_literal", FALSE,
                                     its[nx.cur + 1].s),
                            string_eval_literal(its[nx.cur + 1].s))
                ELSE LET h == Hooked(nx, HookCall("start_string_eval",
                                                  FALSE, ""),
                                     start_string_eval)
                     IN  [h EXCEPT !.stack =
                              Append(@, Frame(FALSE, FALSE, TRUE))]
          [] it.k = "CloseEval" /\ head.end_on_eval ->
                LET h == Hooked(nx, HookCall("end_string_eval", FALSE, ""),
                                end_string_eval)
                IN  [h EXCEPT !.stack = Front(@)]
          [] OTHER -> [nx EXCEPT !.res = "err"]

\* The match with an OpenEval arm that takes the enclosing frame out of
\* the quote before it pushes the new one.
FormatItem_exit_quote(its, st) ==
    LET it == its[st.cur + 1]
        head == Last(st.stack)
        nx == [st EXCEPT !.cur = @ + 1]
    IN  CASE it.k = "Registered" -> nx
          [] it.k = "Literal" ->
                IF head.in_quote
                THEN Hooked(nx, HookCall("write_quoted", FALSE, it.s),
                            write_quoted(it.s))
                ELSE [nx EXCEPT !.sink = write_str(@, <<it.s>>)]
          [] it.k = "OpenQuote" /\ ~head.in_quote ->
                Hooked(WithTop(nx, [head EXCEPT !.has_eval = it.e,
                                                !.in_quote = TRUE]),
                       HookCall("open_quote", it.e, ""), open_quote(it.e))
          [] it.k = "CloseQuote" /\ head.in_quote ->
                Hooked(WithTop(nx, [head EXCEPT !.in_quote = FALSE,
                                                !.has_eval = FALSE]),
                       HookCall("close_quote", head.has_eval, ""),
                       close_quote(head.has_eval))
          [] it.k = "LangBox" ->
                [nx EXCEPT !.sink = write_str(@, lang_format(it.s))]
          [] it.k \in WhitespaceKinds ->
                [nx EXCEPT !.sink = Whitespace(it, @)]
          [] it.k = "OpenEval" /\ head.in_quote ->
                IF PeekLiteralCloseEval(its, nx.cur)
                THEN Hooked([nx EXCEPT !.cur = @ + 2],
                            HookCall("string_eval_literal", FALSE,
                                     its[nx.cur + 1].s),
                            string_eval_literal(its[nx.cur + 1].s))
                ELSE LET h == Hooked(nx, HookCall("start_string_eval",
                                                  FALSE, ""),
                                     start_string_eval)
                     IN  [h EXCEPT !.stack =
                              Append(WithTop(h, [head EXCEPT
                                                    !.in_quote = FALSE]).stack,
                                     Frame(FALSE, FALSE, TRUE))]
          [] it.k = "CloseEval" /\ head.end_on_eval ->
                LET h == Hooked(nx, HookCall("end_string_eval", FALSE, ""),
                                end_string_eval)
                IN  [h EXCEPT !.stack = Front(@)]
          [] OTHER -> [nx EXCEPT !.res = "err"]

\* The match with a CloseEval arm that pops whatever frame is on top.
FormatItem_pop_any(its, st) ==
    LET it == its[st.cur + 1]
        head == Last(st.stack)
        nx == [st EXCEPT !.cur = @ + 1]
    IN  CASE it.k = "Registered" -> nx
          [] it.k = "Literal" ->
                IF head.in_quote
                THEN Hooked(nx, HookCall("write_quoted", FALSE, it.s),
                            write_quoted(it.s))
                ELSE [nx EXCEPT !.sink = write_str(@, <<it.s>>)]
          [] it.k = "OpenQuote" /\ ~head.in_quote ->
                Hooked(WithTop(nx, [head EXCEPT !.has_eval = it.e,
                                                !.in_quote = TRUE]),
                       HookCall("open_quote", it.e, ""), open_quote(it.e))
          [] it.k = "CloseQuote" /\ head.in_quote ->
                Hooked(WithTop(nx, [head EXCEPT !.in_quote = FALSE,
                                                !.has_eval = FALSE]),
                       HookCall("close_quote", head.has_eval, ""),
                       close_quote(head.has_eval))
          [] it.k = "LangBox" ->
                [nx EXCEPT !.sink = write_str(@, lang_format(it.s))]
          [] it.k \in WhitespaceKinds ->
                [nx EXCEPT !.sink = Whitespace(it, @)]
          [] it.k = "OpenEval" /\ head.in_quote ->
                IF PeekLiteralCloseEval(its, nx.cur)
                THEN Hooked([nx EXCEPT !.cur = @ + 2],
                            HookCall("string_eval_literal", FALSE,
                                     its[nx.cur + 1].s),
                            string_eval_literal(its[nx.cur + 1].s))
                ELSE LET h == Hooked(nx, HookCall("start_string_eval",
                                                  FALSE, ""),
                                     start_string_eval)
                     IN  [h EXCEPT !.stack =
                              Append(@, Frame(FALSE, FALSE, TRUE))]
          [] it.k = "CloseEval" ->
                LET h == Hooked(nx, HookCall("end_string_eval", FALSE, ""),
                                end_string_eval)
                IN  [h EXCEPT !.stack = Front(@)]
          [] OTHER -> [nx EXCEPT !.res = "err"]

\* The match with an OpenEval arm that clears has_eval of the frame it
\* leaves behind.
FormatItem_eval_clears_flag(its, st) ==
    LET it == its[st.cur + 1]
        head == Last(st.stack)
        nx == [st EXCEPT !.cur = @ + 1]
    IN  CASE it.k = "Registered" -> nx
          [] it.k = "Literal" ->
                IF head.in_quote
                THEN Hooked(nx, HookCall("write_quoted", FALSE, it.s),
                            write_quoted(it.s))
                ELSE [nx EXCEPT !.sink = write_str(@, <<it.s>>)]
          [] it.k = "OpenQuote" /\ ~head.in_quote ->
                Hooked(WithTop(nx, [head EXCEPT !.has_eval = it.e,
                                                !.in_quote = TRUE]),
                       HookCall("open_quote", it.e, ""), open_quote(it.e))
          [] it.k = "CloseQuote" /\ head.in_quote ->
                Hooked(WithTop(nx, [head EXCEPT !.in_quote = FALSE,
                                                !.has_eval = FALSE]),
                       HookCall("close_quote", head.has_eval, ""),
                       close_quote(head.has_eval))
          [] it.k = "LangBox" ->
                [nx EXCEPT !.sink = write_str(@, lang_format(it.s))]
          [] it.k \in WhitespaceKinds ->
                [nx EXCEPT !.sink = Whitespace(it, @)]
          [] it.k = "OpenEval" /\ head.in_quote ->
                IF PeekLiteralCloseEval(its, nx.cur)
                THEN Hooked([nx EXCEPT !.cur = @ + 2],
                            HookCall("string_eval_literal", FALSE,
                                     its[nx.cur + 1].s),
                            string_eval_literal(its[nx.cur + 1].s))
                ELSE LET h == Hooked(nx, HookCall("start_string_eval",
                                                  FALSE, ""),
                                     start_string_eval)
                     IN  [h EXCEPT !.stack =
                              Append(WithTop(h, [head EXCEPT
                                                    !.has_eval = FALSE]).stack,
                                     Frame(FALSE, FALSE, TRUE))]
          [] it.k = "CloseEval" /\ head.end_on_eval ->
                LET h == Hooked(nx, HookCall("end_string_eval", FALSE, ""),
                                end_string_eval)
                IN  [h EXCEPT !.stack = Front(@)]
          [] OTHER -> [nx EXCEPT !.res = "err"]

\* The match with a CloseEval arm that takes a frame out of quote only.
FormatItem_eval_closed_quote(its, st) ==
    LET it == its[st.cur + 1]
        head == Last(st.stack)
        nx == [st EXCEPT !.cur = @ + 1]
    IN  CASE it.k = "Registered" -> nx
          [] it.k = "Literal" ->
                IF head.in_quote
                THEN Hooked(nx, HookCall("write_quoted", FALSE, it.s),
                            write_quoted(it.s))
                ELSE [nx EXCEPT !.sink = write_str(@, <<it.s>>)]
          [] it.k = "OpenQuote" /\ ~head.in_quote ->
                Hooked(WithTop(nx, [head EXCEPT !.has_eval = it.e,
                                                !.in_quote = TRUE]),
                       HookCall("open_quote", it.e, ""), open_quote(it.e))
          [] it.k = "CloseQuote" /\ head.in_quote ->
                Hooked(WithTop(nx, [head EXCEPT !.in_quote = FALSE,
                                                !.has_eval = FALSE]),
                       HookCall("close_quote", head.has_eval, ""),
                       close_quote(head.has_eval))
          [] it.k = "LangBox" ->
                [nx EXCEPT !.sink = write_str(@, lang_format(it.s))]
          [] it.k \in WhitespaceKinds ->
                [nx EXCEPT !.sink = Whitespace(it, @)]
          [] it.k = "OpenEval" /\ head.in_quote ->
                IF PeekLiteralCloseEval(its, nx.cur)
                THEN Hooked([nx EXCEPT !.cur = @ + 2],
                            HookCall("string_eval_literal", FALSE,
                                     its[nx.cur + 1].s),
                            string_eval_literal(its[nx.cur + 1].s))
                ELSE LET h == Hooked(nx, HookCall("start_string_eval",
                                                  FALSE, ""),
                                     start_string_eval)
                     IN  [h EXCEPT !.stack =
                              Append(@, Frame(FALSE, FALSE, TRUE))]
          [] it.k = "CloseEval" /\ head.end_on_eval /\ ~head.in_quote ->
                LET h == Hooked(nx, HookCall("end_string_eval", FALSE, ""),
                                end_string_eval)
                IN  [h EXCEPT !.stack = Front(@)]
          [] OTHER -> [nx EXCEPT !.res = "err"]

\* The match with a Registered arm that leaves the cursor where it is.
FormatItem_stuck(its, st) ==
    LET it == its[st.cur + 1]
        head == Last(st.stack)
        nx == [st EXCEPT !.cur = @ + 1]
    IN  CASE it.k = "Registered" -> st
          [] it.k = "Literal" ->
                IF head.in_quote
                THEN Hooked(nx, HookCall("write_quoted", FALSE, it.s),
                            write_quoted(it.s))
                ELSE [nx EXCEPT !.sink = write_str(@, <<it.s>>)]
          [] it.k = "OpenQuote" /\ ~head.in_quote ->
                Hooked(WithTop(nx, [head EXCEPT !.has_eval = it.e,
                                                !.in_quote = TRUE]),
                       HookCall("open_quote", it.e, ""), open_quote(it.e))
          [] it.k = "CloseQuote" /\ head.in_quote ->
                Hooked(WithTop(nx, [head EXCEPT !.in_quote = FALSE,
                                                !.has_eval = FALSE]),
                       HookCall("close_quote", head.has_eval, ""),
                       close_quote(head.has_eval))
          [] it.k = "LangBox" ->
                [nx EXCEPT !.sink = write_str(@, lang_format(it.s))]
          [] it.k \in WhitespaceKinds ->
                [nx EXCEPT !.sink = Whitespace(it, @)]
          [] it.k = "OpenEval" /\ head.in_quote ->
                IF PeekLiteralCloseEval(its, nx.cur)
                THEN Hooked([nx EXCEPT !.cur = @ + 2],
                            HookCall("string_eval_literal", FALSE,
                                     its[nx.cur + 1].s),
                            string_eval_literal(its[nx.cur + 1].s))
                ELSE LET h == Hooked(nx, HookCall("start_string_eval",
                                                  FALSE, ""),
                                     start_string_eval)
                     IN  [h EXCEPT !.stack =
                              Append(@, Frame(FALSE, FALSE, TRUE))]
          [] it.k = "CloseEval" /\ head.end_on_eval ->
                LET h == Hooked(nx, HookCall("end_string_eval", FALSE, ""),
                                end_string_eval)
                IN  [h EXCEPT !.stack = Front(@)]
          [] OTHER -> [nx EXCEPT !.res = "err"]

\* One iteration of the while loop: the match on the next item.
FormatItem(its, st) ==
    LET it == its[st.cur + 1]
        head == Last(st.stack)
        nx == [st EXCEPT !.cur = @ + 1]
    IN  CASE it.k = "Registered" -> nx
          [] it.k = "Literal" ->
                IF head.in_quote
                THEN Hooked(nx, HookCall("write_quoted", FALSE, it.s),
                            write_quoted(it.s))
                ELSE [nx EXCEPT !.sink = write_str(@, <<it.s>>)]
          [] it.k = "OpenQuote" /\ ~head.in_quote ->
                Hooked(WithTop(nx, [head EXCEPT !.has_eval = it.e,
                                                !.in_quote = TRUE]),
                       HookCall("open_quote", it.e, ""), open_quote(it.e))
          [] it.k = "CloseQuote" /\ head.in_quote ->
                Hooked(WithTop(nx, [head EXCEPT !.in_quote = FALSE,
                                                !.has_eval = FALSE]),
                       HookCall("close_quote", head.has_eval, ""),
                       close_quote(head.has_eval))
          [] it.k = "LangBox" ->
                [nx EXCEPT !.sink = write_str(@, lang_format(it.s))]
          [] it.k \in WhitespaceKinds ->
                [nx EXCEPT !.sink = Whitespace(it, @)]
          [] it.k = "OpenEval" /\ head.in_quote ->
                IF PeekLiteralCloseEval(its, nx.cur)
                THEN Hooked([nx EXCEPT !.cur = @ + 2],
                            HookCall("string_eval_literal", FALSE,
                                     its[nx.cur + 1].s),
                            string_eval_literal(its[nx.cur + 1].s))
                ELSE LET h == Hooked(nx, HookCall("start_string_eval",
                                                  FALSE, ""),
                                     start_string_eval)
                     IN  [h EXCEPT !.stack =
                              Append(@, Frame(FALSE, FALSE, TRUE))]
          [] it.k = "CloseEval" /\ head.end_on_eval ->
                LET h == Hooked(nx, HookCall("end_string_eval", FALSE, ""),
                                end_string_eval)
                IN  [h EXCEPT !.stack = Front(@)]
          [] OTHER -> [nx EXCEPT !.res = "err"]

\* The loop with a fault that takes back what was written.
FormatLoop_rollback(its, st) ==
    IF st.cur >= Len(its) \/ st.stack = <<>>
    THEN [st EXCEPT !.res = "ok"]
    ELSE LET r == FormatItem(its, st)
         IN  IF r.res = "err" THEN [r EXCEPT !.sink = NewFormatter] ELSE r

\* The loop with a check at the end of the stream: Err if a quote is open
\* or an eval frame is left on the stack.
FormatLoop_balanced(its, st) ==
    IF st.cur >= Len(its) \/ st.stack = <<>>
    THEN [st EXCEPT !.res =
            IF Len(st.stack) = 1 /\ ~st.stack[1].in_quote THEN "ok"
            ELSE "err"]
    ELSE FormatItem(its, st)

\* The loop test and one iteration: Ok once the cursor is exhausted.
FormatLoop(its, st) ==
    IF st.cur >= Len(its) \/ st.stack = <<>>
    THEN [st EXCEPT !.res = "ok"]
    ELSE FormatItem(its, st)

\* The whole loop, from st to the return.
RECURSIVE FormatFrom(_, _)
FormatFrom(its, st) ==
    IF st.res # "run" THEN st ELSE FormatFrom(its, FormatLoop(its, st))

\* Tokens::format into a fresh Formatter.
format(its) == FormatFrom(its, FormatEnter(NewFormatter))

\* ------------------------------------------------------------------------
\* JavaScript: import collation and file rendering (src/src/lang/js.rs).

\* The strings of the model in Ord order of str (byte-wise).
Alphabet ==
    <<"", "T", "a", "d", "e", "m", "n", "o", "p", "r", "t", "v", "x", "y", "z">>

Rank(s) == CHOOSE i \in 1..Len(Alphabet) : Alphabet[i] = s

\* str::cmp(s, t) = Less
StrLt(s, t) == Rank(s) < Rank(t)

\* The elements of S in ascending order, as BTreeMap and BTreeSet iterate;
\* Before holds the pairs <<y, x>> of S with y less than x.
InOrder(S, Before) ==
    [i \in 1..Cardinality(S) |->
        CHOOSE x \in S : Cardinality({y \in S : <<y, x>> \in Before}) = i - 1]

\* The order of the keys of the BTreeMap: Ord of str.
StrOrder(S) == {p \in S \X S : StrLt(p[1], p[2])}

\* enum ImportedElement
Plain(name) == [v |-> "Plain", name |-> name, alias |-> ""]
Aliased(name, alias) == [v |-> "Aliased", name |-> name, alias |-> alias]

\* An order of ImportedElement by name, then alias, a plain element being
\* one without alias.
ElemLt_by_name(a, b) ==
    \/ StrLt(a.name, b.name)
    \/ a.name = b.name /\ StrLt(a.alias, b.alias)

\* #[derive(PartialOrd, Ord)] on ImportedElement: the variants in the order
\* of their declaration, then the fields from left to right.
ElemLt(a, b) ==
    \/ a.v = "Plain" /\ b.v = "Aliased"
    \/ /\ a.v = b.v
       /\ \/ StrLt(a.name, b.name)
          \/ a.name = b.name /\ StrLt(a.alias, b.alias)

\* The order of the elements of the BTreeSet.
ElemOrder(S) == {p \in S \X S : ElemLt(p[1], p[2])}

\* Module::default()
ModuleDefault == [default_import |-> <<>>, set |-> {}]

\* The body of the loop over walk_imports() with a set of named imports
\* that holds one element for each name.
Collect_by_name(modules, s) ==
    LET this == LangItemOf(s)
        entry == IF this.module \in DOMAIN modules THEN modules
                 ELSE modules @@ (this.module :> ModuleDefault)
    IN  CASE this.t = "Import" ->
                [entry EXCEPT ![this.module].set =
                    IF \E el \in @ : el.name = this.name THEN @
                    ELSE @ \cup
                        {IF this.alias = "" THEN Plain(this.name)
                         ELSE Aliased(this.name, this.alias)}]
          [] this.t = "ImportDefault" ->
                [entry EXCEPT ![this.module].default_import = <<this.name>>]
          [] OTHER -> modules

\* The body of the loop over walk_imports(): the match on import.as_enum().
Collect(modules, s) ==
    LET this == LangItemOf(s)
        entry == IF this.module \in DOMAIN modules THEN modules
                 ELSE modules @@ (this.module :> ModuleDefault)
    IN  CASE this.t = "Import" ->
                [entry EXCEPT ![this.module].set = @ \cup
                    {IF this.alias = "" THEN Plain(this.name)
                     ELSE Aliased(this.name, this.alias)}]
          [] this.t = "ImportDefault" ->
                [entry EXCEPT ![this.module].default_import = <<this.name>>]
          [] OTHER -> modules

\* for import in tokens.walk_imports() { .. }
RECURSIVE CollectAll(_, _)
CollectAll(modules, imps) ==
    IF imps = <<>> THEN modules
    ELSE CollectAll(Collect(modules, Head(imps)), Tail(imps))

\* One element of the brace block: `name` or `name as alias`.
ElementTokens(toks, el) ==
    IF el.v = "Plain" THEN literal(toks, el.name)
    ELSE literal(space(literal(space(literal(toks, el.name)), "as")),
                 el.alias)

\* while let Some(el) = it.next() { .. }: the elements, a comma and a
\* space behind each one but the last.
RECURSIVE SetTokens(_, _)
SetTokens(toks, els) ==
    IF els = <<>> THEN toks
    ELSE LET t == ElementTokens(toks, Head(els))
         IN  SetTokens(IF Tail(els) # <<>> THEN space(literal(t, ","))
                       ELSE t,
                       Tail(els))

\* The statement of one module with a brace block also for a module
\* without named imports.
StatementTokens_braces(output, name, module) ==
    LET a == space(literal(push(output), "import"))
        b == IF module.default_import = <<>> THEN a
             ELSE space(literal(literal(a, module.default_import[1]), ","))
        c == literal(SetTokens(literal(b, "{"),
                               InOrder(module.set, ElemOrder(module.set))), "}")
    IN  literal(quoted(space(literal(space(c), "from")), name), ";")

\* The body of the loop over the modules: output.push() and the statement
\* `import <default>, {<elements>} from "<name>";`.
StatementTokens(output, name, module) ==
    LET a == space(literal(push(output), "import"))
        b == IF module.default_import = <<>> THEN a
             ELSE LET d == literal(a, module.default_import[1])
                  IN  IF module.set # {} THEN space(literal(d, ","))
                      ELSE d
        c == IF module.set = {} THEN b
             ELSE literal(SetTokens(literal(b, "{"),
                                    InOrder(module.set,
                                            ElemOrder(module.set))), "}")
    IN  literal(quoted(space(literal(space(c), "from")), name), ";")

\* for (name, module) in modules { .. }
RECURSIVE Statements(_, _, _)
Statements(output, names, modules) ==
    IF names = <<>> THEN output
    ELSE Statements(StatementTokens(output, Head(names),
                                    modules[Head(names)]),
                    Tail(names), modules)

\* imports() without the blank line behind the statements.
imports_no_line(tokens) ==
    LET modules == CollectAll(<<>>, walk_imports(tokens))
    IN  IF DOMAIN modules = {} THEN <<>>
        ELSE Statements(<<>>,
                        InOrder(DOMAIN modules, StrOrder(DOMAIN modules)),
                        modules)

\* imports() with the modules in the order of their discovery.
RECURSIVE Discovered(_)
Discovered(imps) ==
    IF imps = <<>> THEN <<>>
    ELSE LET rest == Discovered(Front(imps))
             m == LangItemOf(Last(imps)).module
         IN  IF \E i \in 1..Len(rest) : rest[i] = m THEN rest
             ELSE Append(rest, m)

imports_discovery_order(tokens) ==
    LET modules == CollectAll(<<>>, walk_imports(tokens))
    IN  IF DOMAIN modules = {} THEN <<>>
        ELSE line(Statements(<<>>, Discovered(walk_imports(tokens)),
                             modules))

\* JavaScript::imports: the tokens of the import statements, one per
\* module, and output.push_line() behind them.
imports(tokens) ==
    LET modules == CollectAll(<<>>, walk_imports(tokens))
    IN  IF DOMAIN modules = {} THEN <<>>
        ELSE line(Statements(<<>>,
                             InOrder(DOMAIN modules,
                                     StrOrder(DOMAIN modules)),
                             modules))

\* JavaScript::write_file: the imports, then the tokens, formatted.
write_file(tokens) == format(extend(imports(tokens), tokens))

\* format_file that moves the imports into the Tokens it renders.
format_file_in_place(its) ==
    [self |-> extend(imports(its), its), r |-> write_file(its)]

\* Tokens::format_file: self after the call, and the state format has
\* left behind.
format_file(its) == [self |-> its, r |-> write_file(its)]

\* for c in input.chars() { .. }
RECURSIVE quote_chars(_)
quote_chars(input) ==
    IF input = <<>> THEN <<>>
    ELSE write_quoted(Head(input)) \o quote_chars(Tail(input))

\* JavaScript::quote_string, the input a sequence of characters.
quote_string(input) == <<"\"">> \o quote_chars(input) \o <<"\"">>

\* ------------------------------------------------------------------------
\* State.

VARIABLES
    items,    \* Tokens.items
    pc,       \* "build", "format" (inside the loop), "done", "fault", or
              \* "panic" (a producer call has panicked)
    f,        \* the state a format call has left behind
    lastOp,   \* history: the operation called last
    prev      \* history: Tokens.items before that call

vars == <<items, pc, f, lastOp, prev>>

Init ==
    /\ items = <<>>
    /\ pc = "build"
    /\ f = NoFormat
    /\ lastOp = "new"
    /\ prev = <<>>

\* The streams the producer may build.
InBounds(its) ==
    /\ Len(its) <= MaxLen
    /\ \A i \in 1..Len(its) : its[i].n \in -MaxDelta..MaxDelta

\* A producer call `op` that leaves the item vector `its`.
Built(op, its) ==
    /\ pc = "build"
    /\ InBounds(its)
    /\ items' = its
    /\ lastOp' = op
    /\ prev' = items
    /\ UNCHANGED <<pc, f>>

CallSpace == Built("space", space(items))
CallPush == Built("push", push(items))
CallLine == Built("line", line(items))
CallIndent == Built("indent", indent(items))
CallUnindent == Built("unindent", unindent(items))
CallLiteral == \E s \in Texts : Built("literal", literal(items, s))
CallQuoted == \E s \in Texts : Built("quoted", quoted(items, s))
CallItem == \E it \in ItemInputs : Built("item", item(items, it))

\* The item sequences a producer may hand to extend() on a stream of
\* length n.
ExtendInputs(n) ==
    LET room == IF MaxLen - n < MaxExt THEN MaxLen - n ELSE MaxExt
    IN  UNION {[1..m -> ExtendItems] : m \in 1..room}

CallExtend ==
    \E it \in ExtendInputs(Len(items)) : Built("extend", extend(items, it))

\* The producer hands the stream to format, which runs to its return.
CallFormat ==
    /\ pc = "build"
    /\ f' = format(items)
    /\ pc' = IF f'.res = "err" THEN "fault" ELSE "done"
    /\ lastOp' = "format"
    /\ prev' = items
    /\ UNCHANGED items

Next ==
    \/ CallSpace
    \/ CallPush
    \/ CallLine
    \/ CallIndent
    \/ CallUnindent
    \/ CallLiteral
    \/ CallQuoted
    \/ CallItem
    \/ CallExtend
    \/ CallFormat

Spec == Init /\ [][Next]_vars

\* The producer restricted to the calls that take no Item: space, push,
\* line, indent, unindent, literal and quoted.
NextCalls ==
    \/ CallSpace
    \/ CallPush
    \/ CallLine
    \/ CallIndent
    \/ CallUnindent
    \/ CallLiteral
    \/ CallQuoted
    \/ CallFormat

SpecCalls == Init /\ [][NextCalls]_vars

\* ------------------------------------------------------------------------
\* Tokens::format, one iteration of its loop at a time, on a finished
\* stream.

\* The calls a producer makes to lay out a stream: the whitespace
\* directives, a literal and a local name.
LayoutCalls ==
    {"push", "line", "space", "indent", "unindent", "literal", "local"}

\* One producer call.
Call(its, c) ==
    CASE c = "push"     -> push(its)
      [] c = "line"     -> line(its)
      [] c = "space"    -> space(its)
      [] c = "indent"   -> indent(its)
      [] c = "unindent" -> unindent(its)
      [] c = "literal"  -> literal(its, "a")
      [] OTHER          -> item(its, LangBox("v"))

\* A sequence of producer calls.
RECURSIVE Calls(_, _)
Calls(its, cs) ==
    IF cs = <<>> THEN its ELSE Calls(Call(its, Head(cs)), Tail(cs))

\* The streams a producer lays out with at most MaxCalls calls.
LayoutStreams ==
    {Calls(<<>>, cs) : cs \in UNION {[1..m -> LayoutCalls] : m \in 0..MaxCalls}}

\* The items of a quoted string with interpolation: a literal that needs
\* escaping, the quote and eval delimiters, and a registered import.
QuoteItems ==
    {Literal("\""), OpenQuote(TRUE), OpenQuote(FALSE), CloseQuote,
     OpenEval, CloseEval, Registered("T")}

\* The streams a producer extends an empty Tokens to with at most
\* MaxQuoteLen such items.
QuoteStreams ==
    {extend(<<>>, it) : it \in UNION {[1..m -> QuoteItems] : m \in 1..MaxQuoteLen}}

\* format is entered on the finished stream its.
Entered(its) ==
    /\ items = its
    /\ pc = "format"
    /\ f = FormatEnter(NewFormatter)
    /\ lastOp = "format"
    /\ prev = its

InitLayout == \E its \in LayoutStreams : Entered(its)

InitQuote == \E its \in QuoteStreams : Entered(its)

\* The loop is running and cursor.next() is an item of kind k.
AtItem(k) ==
    /\ pc = "format"
    /\ f.res = "run"
    /\ f.cur < Len(items)
    /\ items[f.cur + 1].k = k

\* One pass through `while let`: the test and, if it passes, the match.
Iterate ==
    /\ f' = FormatLoop(items, f)
    /\ pc' = CASE f'.res = "err" -> "fault"
               [] f'.res = "ok"  -> "done"
               [] OTHER          -> "format"
    /\ UNCHANGED <<items, lastOp, prev>>

FormatRegistered == AtItem("Registered") /\ Iterate
FormatLiteral == AtItem("Literal") /\ Iterate
FormatOpenQuote == AtItem("OpenQuote") /\ Iterate /\ pc' = "format"
FormatCloseQuote == AtItem("CloseQuote") /\ Iterate /\ pc' = "format"
FormatLangBox == AtItem("LangBox") /\ Iterate
FormatWhitespace == (\E k \in WhitespaceKinds : AtItem(k)) /\ Iterate
FormatOpenEval == AtItem("OpenEval") /\ Iterate /\ pc' = "format"
FormatCloseEval == AtItem("CloseEval") /\ Iterate /\ pc' = "format"

\* The last arm of the match: return Err.
FormatFault ==
    /\ pc = "format"
    /\ f.res = "run"
    /\ f.cur < Len(items)
    /\ Iterate
    /\ pc' = "fault"

\* The cursor is exhausted: return Ok.
FormatReturn ==
    /\ pc = "format"
    /\ f.res = "run"
    /\ f.cur >= Len(items)
    /\ Iterate

\* The iterations of format on a stream of whitespace directives,
\* literals and language items.
NextLayout ==
    \/ FormatLiteral
    \/ FormatLangBox
    \/ FormatWhitespace
    \/ FormatReturn

\* format on the streams a producer lays out.
SpecLayout == InitLayout /\ [][NextLayout]_vars

\* The iterations of format on a stream of quote, eval, literal and
\* registered items.
NextQuote ==
    \/ FormatRegistered
    \/ FormatLiteral
    \/ FormatOpenQuote
    \/ FormatCloseQuote
    \/ FormatOpenEval
    \/ FormatCloseEval
    \/ FormatFault
    \/ FormatReturn

\* format on the streams of quoted strings with interpolation.
SpecQuote == InitQuote /\ [][NextQuote]_vars

\* format is straight-line code in one thread: an iteration that can be
\* made is made.
SpecQuoteFair == SpecQuote /\ WF_vars(NextQuote)

\* ------------------------------------------------------------------------
\* Rendering a file: Tokens::format_file and Tokens::format on a finished
\* stream of language items, any number of times.

\* The items of a file body: the imports, one of them registered only, a
\* local name and a literal.
FileItems ==
    {LangBox(s) : s \in ImportNames \cup LocalNames}
    \cup {Registered("x"), Literal("a")}

\* The streams a producer extends an empty Tokens to with at most
\* MaxFileLen such items.
FileStreams ==
    {extend(<<>>, it) : it \in UNION {[1..m -> FileItems] : m \in 0..MaxFileLen}}

InitFile ==
    /\ items \in FileStreams
    /\ pc = "build"
    /\ f = NoFormat
    /\ lastOp = "new"
    /\ prev = <<>>

\* A rendering call `op` that leaves the Tokens as self and returns with
\* the format state r.
Render(op, self, r) ==
    /\ items' = self
    /\ f' = r
    /\ pc' = IF r.res = "err" THEN "fault" ELSE "done"
    /\ lastOp' = op
    /\ prev' = items

\* tokens.format_file(..) into a fresh Formatter.
CallFormatFile ==
    LET c == format_file(items) IN Render("format_file", c.self, c.r)

\* tokens.format(..) into a fresh Formatter, on a Tokens that may have
\* been rendered before.
CallFormatAgain == Render("format", items, format(items))

NextFile ==
    \/ CallFormatFile
    \/ CallFormatAgain

SpecFile == InitFile /\ [][NextFile]_vars

\* ------------------------------------------------------------------------
\* Quoting a string: JavaScript::quote_string on a string literal.

\* The characters U+0008 and U+000C, which a TLA+ string cannot hold.
Char08 == "U+0008"
Char0C == "U+000C"

\* The characters of the strings a producer quotes: the control
\* characters, the quotes, the backslash and a letter.
StringChars ==
    {"\t", Char07, Char08, "\n", "\r", Char0C, Char14, "'", "\"", "\\", "a"}

\* The text of the Literal items of a stream, character by character.
RECURSIVE TextOf(_)
TextOf(its) ==
    IF its = <<>> THEN <<>>
    ELSE (IF Head(its).k = "Literal" THEN <<Head(its).s>> ELSE <<>>)
            \o TextOf(Tail(its))

\* The streams of one string literal of at most MaxStrLen characters.
StringStreams ==
    {extend(<<>>, [i \in 1..Len(cs) |-> Literal(cs[i])]) :
        cs \in UNION {[1..m -> StringChars] : m \in 0..MaxStrLen}}

InitString ==
    /\ items \in StringStreams
    /\ pc = "build"
    /\ f = NoFormat
    /\ lastOp = "new"
    /\ prev = <<>>

\* JavaScript::quote_string(out, input) into a fresh Formatter, the input
\* the text of the stream.
CallQuoteString ==
    /\ pc = "build"
    /\ f' = [NoFormat EXCEPT
                !.sink = write_str(NewFormatter, quote_string(TextOf(items))),
                !.res = "ok"]
    /\ pc' = "done"
    /\ lastOp' = "quote_string"
    /\ prev' = items
    /\ UNCHANGED items

NextString == CallQuoteString

SpecString == InitString /\ [][NextString]_vars

\* ------------------------------------------------------------------------
\* indent() and unindent() at the limits of the 16-bit delta.

I16Min == -32768
I16Max == 32767

\* The deltas within MaxWrap of a limit or of zero.
Band ==
    (I16Min..(I16Min + MaxWrap)) \cup ((-MaxWrap)..MaxWrap)
        \cup ((I16Max - MaxWrap)..I16Max)

\* The streams in front of the trailing Indentation.
IndentPrefixes ==
    {<<>>, literal(<<>>, "a"), push(literal(<<>>, "a")),
     line(literal(<<>>, "a")), space(literal(<<>>, "a"))}

\* A stream and the Indentation that that many indent() or unindent()
\* calls, or one item(), have left at its end.
IndentStreams ==
    IndentPrefixes \cup
        {item(pre, Indentation(d)) : pre \in IndentPrefixes, d \in Band \ {0}}

InitIndent ==
    /\ items \in IndentStreams
    /\ pc = "build"
    /\ f = NoFormat
    /\ lastOp = "new"
    /\ prev = <<>>

\* The calls are followed while the trailing delta is in the band.
InBand(its) == EndsWith(its, "Indentation") => Last(its).n \in Band

\* `level.get() + by` does not fit an i16.
Overflows(its, by) ==
    /\ EndsWith(its, "Indentation")
    /\ Last(its).n + by \notin I16Min..I16Max

\* A call that returns: without overflow, or in a build without overflow
\* checks, where the sum wraps.
Returns(op, its) ==
    /\ pc = "build"
    /\ InBand(items)
    /\ items' = its
    /\ lastOp' = op
    /\ prev' = items
    /\ UNCHANGED <<pc, f>>

\* A call in a build with overflow checks whose sum overflows: the panic
\* comes after items.pop() has taken the Indentation off the vector.
Panics(op, by) ==
    /\ pc = "build"
    /\ Overflows(items, by)
    /\ items' = Front(items)
    /\ pc' = "panic"
    /\ lastOp' = op
    /\ prev' = items
    /\ UNCHANGED f

IndentReturns == Returns("indent", indent(items))
IndentPanics == Panics("indent", 1)
UnindentReturns == Returns("unindent", unindent(items))
UnindentPanics == Panics("unindent", -1)

NextIndent ==
    \/ IndentReturns
    \/ IndentPanics
    \/ UnindentReturns
    \/ UnindentPanics

SpecIndent == InitIndent /\ [][NextIndent]_vars

\* ------------------------------------------------------------------------
\* Properties of the stream structure.

\* Some item of kind k1 is immediately followed by one of kind k2.
Adjacent(its, k1, k2) ==
    \E i \in 1..(Len(its) - 1) : its[i].k = k1 /\ its[i + 1].k = k2

\* C1: in every stream reachable from an empty Tokens through space, push,
\* line, indent, unindent, literal, quoted, item and extend, no two Space
\* items are adjacent.
C1_NoAdjacentSpace == ~Adjacent(items, "Space", "Space")

\* A second space() in a row has been absorbed.
C1_Witness ==
    lastOp = "space" /\ EndsWith(prev, "Space") /\ items = prev

\* C2: no Push item is immediately preceded by a Push or by a Line, and
\* push() leaves the stream unchanged when its last item is Push or Line.
C2_PushNotAfterPushOrLine ==
    /\ ~Adjacent(items, "Push", "Push")
    /\ ~Adjacent(items, "Line", "Push")
    /\ (lastOp = "push" /\ (EndsWith(prev, "Push") \/ EndsWith(prev, "Line"))
            => items = prev)

\* push(); push() on an empty stream has left exactly [Push].
C2_Witness ==
    lastOp = "push" /\ prev = <<Push>> /\ items = <<Push>>

\* C3: no Push item is immediately followed by a Line item, and line()
\* called when the last item is Push replaces that Push with a Line.
C3_PushNotBeforeLine ==
    /\ ~Adjacent(items, "Push", "Line")
    /\ (lastOp = "line" /\ EndsWith(prev, "Push")
            => items = Append(Front(prev), Line))

\* line() has replaced the Push behind some content.
C3_Witness ==
    /\ lastOp = "line"
    /\ Len(prev) >= 2
    /\ EndsWith(prev, "Push")
    /\ items = Append(Front(prev), Line)

\* C4: after any call to line() the stream ends in exactly one Line and
\* the item before it, if any, is neither Push nor Line; no two Line items
\* are ever adjacent, and line() on an empty stream yields exactly [Line].
C4_LineEndsInOneLine ==
    /\ ~Adjacent(items, "Line", "Line")
    /\ (lastOp = "line" =>
            /\ EndsWith(items, "Line")
            /\ Len(items) >= 2 =>
                   items[Len(items) - 1].k \notin {"Push", "Line"}
            /\ prev = <<>> => items = <<Line>>)

\* line() has been called on a stream that already ended in a Line.
C4_Witness ==
    /\ lastOp = "line"
    /\ Len(prev) >= 2
    /\ EndsWith(prev, "Line")
    /\ items = prev

Accumulated(its, by) ==
    IF EndsWith(its, "Indentation")
    THEN Append(Front(its), Indentation(Last(its).n + by))
    ELSE Append(its, Indentation(by))

Structural(its) ==
    /\ ~Adjacent(its, "Space", "Space")
    /\ ~Adjacent(its, "Push", "Push")
    /\ ~Adjacent(its, "Push", "Line")
    /\ ~Adjacent(its, "Line", "Line")
    /\ ~Adjacent(its, "Indentation", "Indentation")

\* C7: extend(items) preserves all five structural invariants: from a
\* stream that satisfies them, the result has no adjacent Space/Space,
\* Push/Push, Push/Line, Line/Line or Indentation/Indentation pair,
\* whatever the iterator yields.
C7_ExtendPreservesStructure ==
    lastOp = "extend" /\ Structural(prev) => Structural(items)

\* C8: space(), push() and line() are idempotent on the item sequence:
\* on every reachable stream, two calls in a row leave the same stream as
\* one call.
C8_Idempotent ==
    /\ space(space(items)) = space(items)
    /\ push(push(items)) = push(items)
    /\ line(line(items)) = line(items)

\* push() has been called a second time in a row behind some content and
\* changed nothing.
C8_Witness ==
    /\ lastOp = "push"
    /\ Len(prev) >= 2
    /\ prev = push(Front(prev))
    /\ items = prev

\* ------------------------------------------------------------------------
\* Properties of the rendered text.

\* n consecutive space() calls.
RECURSIVE SpaceCalls(_, _)
SpaceCalls(its, n) ==
    IF n = 0 THEN its ELSE SpaceCalls(space(its), n - 1)

\* The text format writes for a stream.
Rendered(its) == format(its).sink.out

\* C9: for every n >= 1, n consecutive space() calls between two literals
\* render as exactly one space character between them, the same text as a
\* single space() call: behind every rendered stream that ends in a literal
\* and renders without a fault, n space() calls and a literal b add
\* exactly " b" to the text; append a, space, append b, space, space,
\* append a renders "a b a".
C9_SpacesRenderOnce ==
    /\ pc = "done" /\ EndsWith(items, "Literal") =>
          \A b \in Texts, n \in 1..MaxSpaceCalls :
              LET one == Rendered(literal(space(items), b))
                  many == Rendered(literal(SpaceCalls(items, n), b))
              IN  /\ many = one
                  /\ many = f.sink.out \o <<" ", b>>
    /\ Rendered(literal(space(space(literal(space(literal(<<>>, "a")),
                                            "b"))), "a"))
          = <<"a", " ", "b", " ", "a">>

\* Two literals with one Space between them have been rendered with
\* exactly one space character between them.
C9_Witness ==
    /\ pc = "done"
    /\ Len(items) = 3
    /\ items[1].k = "Literal"
    /\ items[2].k = "Space"
    /\ items[3].k = "Literal"
    /\ f.sink.out = <<items[1].s, " ", items[3].s>>

\* The items that write no text: the whitespace directives and the
\* Registered items.
Silent(it) == it.k \in WhitespaceKinds \cup {"Registered"}

\* A stream without the whitespace directives and Registered items that
\* no text-producing item follows.
RECURSIVE StripTrail(_)
StripTrail(its) ==
    IF its # <<>> /\ Silent(Last(its)) THEN StripTrail(Front(its)) ELSE its

\* C10: whitespace directives with no text-producing item after them
\* render nothing: every stream renders the same text, with the same
\* result, as the stream without the Space, Push, Line, Indentation (and
\* Registered) items at its end.
C10_TrailingWhitespaceInert ==
    pc # "build" =>
        LET r == format(StripTrail(items))
        IN  /\ f.sink.out = r.sink.out
            /\ f.res = r.res

\* A stream with content followed by two whitespace directives has been
\* rendered, and the text ends with the content.
C10_Witness ==
    /\ pc = "done"
    /\ Len(items) = 3
    /\ items[1].k = "Literal"
    /\ items[2].k \in WhitespaceKinds
    /\ items[3].k \in WhitespaceKinds
    /\ f.sink.out = <<items[1].s>>

\* ------------------------------------------------------------------------
\* Properties of the format pass, one iteration at a time.

\* The item the next iteration matches.
NextItem == items[f.cur + 1]

\* The next iteration matches an item that writes its text as it is: a
\* Literal outside a quote or a language item.
AtContent ==
    /\ pc = "format"
    /\ f.cur < Len(items)
    /\ NextItem.k \in {"Literal", "LangBox"}
    /\ ~Last(f.stack).in_quote

\* The text the iteration appends to the sink.
Written == SubSeq(f'.sink.out, Len(f.sink.out) + 1, Len(f'.sink.out))

\* No item among the first c writes text.
NoContent(its, c) == \A i \in 1..c : Silent(its[i])

\* Item c of the stream is a directive of kind k that stands directly
\* between two items that write text.
Between(its, c, k) ==
    /\ c >= 2
    /\ c < Len(its)
    /\ its[c].k = k
    /\ ~Silent(its[c - 1])
    /\ ~Silent(its[c + 1])

\* The sum of the deltas of the Indentation items among the first c.
RECURSIVE SumDeltas(_, _)
SumDeltas(its, c) ==
    IF c = 0 THEN 0 ELSE SumDeltas(its, c - 1) + its[c].n

\* max(0, S) indentation units.
Margin(its, c) == Spaces(Max(SumDeltas(its, c), 0) * IndentUnit)

\* A Line stands among the directives between the last content and item
\* c + 1.
LineSince(its, c) ==
    \E j \in 1..c :
        /\ its[j].k = "Line"
        /\ \A i \in j..c : Silent(its[i])

\* A Push, Line or Indentation stands among the directives between the
\* last content and item c + 1, or there is no content before it: the
\* content of item c + 1 is the first of its line.
StartsLine(its, c) ==
    \/ NoContent(its, c)
    \/ \E j \in 1..c :
           /\ its[j].k \in {"Push", "Line", "Indentation"}
           /\ \A i \in j..c : Silent(its[i])

\* C11: a Push between two pieces of content renders exactly one line
\* break and no blank line (the break, the indentation, then the content),
\* and content with nothing but directives before it is written without
\* any line break, so the output never starts with an empty line; push,
\* a, push, a, push renders the two lines a and a.
C11_PushRendersOneBreak ==
    /\ Rendered(push(literal(push(literal(push(<<>>), "a")), "a")))
          = <<"a", "\n", "a">>
    /\ [][/\ AtContent /\ Between(items, f.cur, "Push") =>
                Written = <<"\n">> \o Margin(items, f.cur) \o <<NextItem.s>>
          /\ AtContent /\ NoContent(items, f.cur) =>
                Written = Spaces(Len(Written) - 1) \o <<NextItem.s>>
          /\ f'.sink.out # <<>> => f'.sink.out[1] # "\n"]_vars

\* push, a, push, a, push has been rendered as a, one line break, a.
C11_Witness ==
    /\ pc = "done"
    /\ items = <<Push, Literal("a"), Push, Literal("a"), Push>>
    /\ f.sink.out = <<"a", "\n", "a">>

\* C12: a Line between two pieces of content renders exactly one empty
\* line between them (two line breaks, the indentation, then the content);
\* a Line with no content before it renders nothing, and neither a
\* directive nor the return writes anything, so a Line with no content
\* after it renders nothing; line, a, line, a, line renders the three
\* lines a, empty, a.
C12_LineRendersOneEmptyLine ==
    /\ Rendered(line(literal(line(literal(line(<<>>), "a")), "a")))
          = <<"a", "\n", "\n", "a">>
    /\ [][/\ AtContent /\ Between(items, f.cur, "Line") =>
                Written = <<"\n", "\n">> \o Margin(items, f.cur)
                              \o <<NextItem.s>>
          /\ AtContent /\ NoContent(items, f.cur) =>
                Written = Spaces(Len(Written) - 1) \o <<NextItem.s>>
          /\ (pc = "format" /\ f.cur < Len(items) /\ Silent(NextItem)) =>
                Written = <<>>
          /\ pc' = "done" => Written = <<>>]_vars

\* line, a, line, a, line has been rendered as a, two line breaks, a.
C12_Witness ==
    /\ pc = "done"
    /\ items = <<Line, Literal("a"), Line, Literal("a"), Line>>
    /\ f.sink.out = <<"a", "\n", "\n", "a">>

\* C13: content that is the first of its line is written behind the owed
\* line breaks and max(0, S) indentation units (and the pending spaces),
\* where S is the sum of the deltas of all Indentation items before it in
\* the stream; content that continues a line is written behind the
\* pending spaces only; a negative S is kept: indent a unindent a
\* unindent a indent a indent a renders with 1, 0, 0, 0, 1 units.
C13_MarginIsClampedSum ==
    /\ Rendered(Calls(<<>>, <<"indent", "literal", "unindent", "literal",
                              "unindent", "literal", "indent", "literal",
                              "indent", "literal">>))
          = Spaces(IndentUnit) \o <<"a", "\n", "a", "\n", "a", "\n", "a", "\n">>
               \o Spaces(IndentUnit) \o <<"a">>
    /\ [][AtContent =>
            LET lead == Spaces(f.sink.spaces) \o <<NextItem.s>>
            IN  IF StartsLine(items, f.cur)
                THEN \E b \in {<<>>, <<"\n">>, <<"\n", "\n">>} :
                        Written = b \o Margin(items, f.cur) \o lead
                ELSE Written = lead]_vars

\* unindent, a, indent, a has been rendered: the indent() cancelled the
\* negative level and the second line is not indented.
C13_Witness ==
    /\ pc = "done"
    /\ items = <<Indentation(-1), Literal("a"), Indentation(1), Literal("a")>>
    /\ f.sink.out = <<"a", "\n", "a">>

\* C14: content written after an Indentation item that follows earlier
\* content starts on a new line (one line break, or two where a Line is
\* owed), indented by the level of the line before plus the delta of the
\* item (and followed by the spaces still pending); a, indent, a, unindent, a renders three lines with the middle one
\* indented one unit.
C14_IndentationActsAsPush ==
    /\ Rendered(Calls(<<>>, <<"literal", "indent", "literal", "unindent",
                              "literal">>))
          = <<"a", "\n">> \o Spaces(IndentUnit) \o <<"a", "\n", "a">>
    /\ [][(/\ AtContent
           /\ f.cur >= 2
           /\ items[f.cur].k = "Indentation"
           /\ ~NoContent(items, f.cur)) =>
             Written =
                 (IF LineSince(items, f.cur) THEN <<"\n", "\n">>
                  ELSE <<"\n">>)
                 \o Spaces(Max(SumDeltas(items, f.cur - 1) + items[f.cur].n, 0)
                              * IndentUnit)
                 \o Spaces(f.sink.spaces)
                 \o <<NextItem.s>>]_vars

\* a, indent, a, unindent, a has been rendered as three lines, the middle
\* one indented one unit.
C14_Witness ==
    /\ pc = "done"
    /\ items = <<Literal("a"), Indentation(1), Literal("a"),
                 Indentation(-1), Literal("a")>>
    /\ f.sink.out
          = <<"a", "\n">> \o Spaces(IndentUnit) \o <<"a", "\n", "a">>

\* The next iteration matches an item of kind k.
AtKind(k) ==
    /\ pc = "format"
    /\ f.cur < Len(items)
    /\ NextItem.k = k

\* The frame on top of the stack.
TopFrame == Last(f.stack)

\* The quote and eval items that are illegal in a frame.
Illegal(it, head) ==
    \/ it.k = "CloseQuote" /\ ~head.in_quote
    \/ it.k = "OpenQuote" /\ head.in_quote
    \/ it.k = "OpenEval" /\ ~head.in_quote
    \/ it.k = "CloseEval" /\ ~head.end_on_eval

\* C15: format returns an error whenever the item it matches is illegal
\* in the frame on top of the stack: CloseQuote while not in quote,
\* OpenQuote while in quote, OpenEval while not in quote, CloseEval while
\* the frame is not tagged end_on_eval.
C15_IllegalItemFaults ==
    [][(pc = "format" /\ f.cur < Len(items) /\ Illegal(NextItem, TopFrame)) =>
          /\ pc' = "fault"
          /\ f'.res = "err"]_vars

\* format has returned an error at a CloseEval met inside a quote whose
\* frame is not tagged end_on_eval.
C15_Witness ==
    /\ pc = "fault"
    /\ f.res = "err"
    /\ items[f.cur].k = "CloseEval"
    /\ TopFrame.in_quote
    /\ ~TopFrame.end_on_eval

\* C16: a fault aborts the pass at the offending item and takes nothing
\* back: the failing iteration leaves the sink, the hook calls and the
\* frames as they were, which is what the items before the offending one
\* render to, and no iteration follows the fault.
C16_FaultAborts ==
    /\ [](pc = "fault" =>
             LET before == format(SubSeq(items, 1, f.cur - 1))
             IN  /\ before.res = "ok"
                 /\ f.sink = before.sink
                 /\ f.calls = before.calls)
    /\ [][/\ pc # "fault"
          /\ pc' = "fault" =>
                /\ f'.sink = f.sink
                /\ f'.calls = f.calls
                /\ f'.stack = f.stack
                /\ f'.cur = f.cur + 1]_vars

\* format has returned an error after it wrote some text, with an item
\* that writes text still behind the offending one.
C16_Witness ==
    /\ pc = "fault"
    /\ f.sink.out # <<>>
    /\ f.calls # <<>>
    /\ f.cur < Len(items)
    /\ \E i \in (f.cur + 1)..Len(items) : ~Silent(items[i])

\* The last Len(t) characters of w are t.
EndsIn(w, t) ==
    /\ Len(w) >= Len(t)
    /\ SubSeq(w, Len(w) - Len(t) + 1, Len(w)) = t

\* C17: a Literal is passed to the string-escaping hook exactly when the
\* frame on top of the stack is in quote, and then its escaped text is
\* written (a double quote as a backslash and a double quote); otherwise
\* no hook is called and the text is written as it is, also in an eval
\* frame that was opened within a quoted string.
C17_LiteralEscapedInQuote ==
    [][AtKind("Literal") =>
          IF TopFrame.in_quote
          THEN /\ f'.calls = Append(f.calls,
                                    HookCall("write_quoted", FALSE, NextItem.s))
               /\ EndsIn(Written, write_quoted(NextItem.s))
               /\ NextItem.s = "\"" => EndsIn(Written, <<"\\", "\"">>)
          ELSE /\ f'.calls = f.calls
               /\ EndsIn(Written, <<NextItem.s>>)
               /\ ~EndsIn(Written, <<"\\", NextItem.s>>)]_vars

\* A double quote has been written as it is in an eval frame opened
\* within a quoted string.
C17_Witness ==
    /\ pc = "format"
    /\ f.cur = 3
    /\ SubSeq(items, 1, 3) = <<OpenQuote(TRUE), OpenEval, Literal("\"")>>
    /\ Len(f.stack) = 2
    /\ f.stack[1].in_quote
    /\ f.sink.out = <<Backtick, "$", "{", "\"">>
    /\ f.calls = <<HookCall("open_quote", TRUE, ""),
                   HookCall("start_string_eval", FALSE, "")>>

\* C18: on OpenEval inside a quote, exactly when the next two items are a
\* Literal followed by CloseEval format calls the literal-interpolation
\* hook once, consumes the three items and leaves the frame stack as it
\* is; in every other case it calls interpolation-start, consumes the
\* OpenEval and pushes one frame with in_quote false and end_on_eval true.
C18_EvalPaths ==
    [][(AtKind("OpenEval") /\ TopFrame.in_quote) =>
          IF /\ f.cur + 3 <= Len(items)
             /\ items[f.cur + 2].k = "Literal"
             /\ items[f.cur + 3].k = "CloseEval"
          THEN /\ f'.calls = Append(f.calls,
                                    HookCall("string_eval_literal", FALSE,
                                             items[f.cur + 2].s))
               /\ f'.cur = f.cur + 3
               /\ f'.stack = f.stack
          ELSE /\ f'.calls = Append(f.calls,
                                    HookCall("start_string_eval", FALSE, ""))
               /\ f'.cur = f.cur + 1
               /\ f'.stack = Append(f.stack, Frame(FALSE, FALSE, TRUE))]_vars

\* Inside one quote format has taken the direct path for an OpenEval,
\* Literal, CloseEval and then pushed a frame for a second OpenEval.
C18_Witness ==
    /\ pc = "format"
    /\ f.cur = 5
    /\ Len(f.stack) = 2
    /\ TopFrame = Frame(FALSE, FALSE, TRUE)
    /\ \E e \in BOOLEAN :
          f.calls = <<HookCall("open_quote", e, ""),
                      HookCall("string_eval_literal", FALSE, "\""),
                      HookCall("start_string_eval", FALSE, "")>>

\* C19: a CloseEval in a frame tagged end_on_eval calls the
\* interpolation-end hook and pops exactly one frame; the frame below was
\* left as it was when the eval frame was pushed on it and while that
\* frame was on top, so it is in quote and has the interpolation flag of
\* its OpenQuote: a Literal behind the CloseEval is escaped again and the
\* CloseQuote is legal.
C19_CloseEvalResumesQuote ==
    /\ format(<<OpenQuote(TRUE), OpenEval, CloseEval, Literal("\""),
                CloseQuote>>).sink.out
          = <<Backtick, "$", "{", "}", "\\", "\"", Backtick>>
    /\ [][/\ (AtKind("CloseEval") /\ TopFrame.end_on_eval) =>
                /\ f'.calls = Append(f.calls,
                                     HookCall("end_string_eval", FALSE, ""))
                /\ f'.stack = Front(f.stack)
                /\ Last(f'.stack).in_quote
                /\ pc' = "format"
          /\ Len(f'.stack) > Len(f.stack) => Front(f'.stack) = f.stack
          /\ \A i \in 1..(Len(f.stack) - 1) :
                i <= Len(f'.stack) => f'.stack[i] = f.stack[i]]_vars

\* An interpolated string with an empty eval and a double quote behind it
\* has been rendered to its end: the double quote was escaped and the
\* string closed with the delimiter it was opened with.
C19_Witness ==
    /\ pc = "done"
    /\ items = <<OpenQuote(TRUE), OpenEval, CloseEval, Literal("\""),
                 CloseQuote>>
    /\ f.sink.out = <<Backtick, "$", "{", "}", "\\", "\"", Backtick>>
    /\ f.calls[Len(f.calls)] = HookCall("close_quote", TRUE, "")

\* The names of the language items of a stream that have an import
\* identity, in the order of the stream.
ImportsOf(its) ==
    LET sel == SelectSeq(its, LAMBDA it :
                   /\ it.k \in {"LangBox", "Registered"}
                   /\ it.s \in LangNames)
    IN  [i \in 1..Len(sel) |-> sel[i].s]

\* C20: a Registered item never produces output: in any frame the
\* iteration that matches it leaves the sink as it is, calls no hook and
\* leaves the frames alone, while walk_imports yields the import identity
\* of every Registered item (and of every LangBox) that has one.
C20_RegisteredIsSilent ==
    /\ [](walk_imports(items) = ImportsOf(items))
    /\ [][AtKind("Registered") =>
            /\ f'.sink = f.sink
            /\ f'.calls = f.calls
            /\ f'.stack = f.stack
            /\ f'.cur = f.cur + 1
            /\ pc' = "format"]_vars

\* A Registered item has been matched inside a quoted string and nothing
\* but the opening quote is written; walk_imports yields its import.
C20_Witness ==
    /\ pc = "format"
    /\ f.cur = 2
    /\ items[2] = Registered("T")
    /\ TopFrame.in_quote
    /\ Len(f.sink.out) = 1
    /\ Len(f.calls) = 1
    /\ walk_imports(items) # <<>>
    /\ walk_imports(items)[1] = "T"

\* ------------------------------------------------------------------------
\* Properties of the imports and of file rendering.

\* The integers of S in ascending order.
Ascending(S) == InOrder(S, {p \in S \X S : p[1] < p[2]})

\* The positions of the language items of a stream that are imports.
ImportPositions(its) ==
    {i \in 1..Len(its) :
        /\ its[i].k \in {"LangBox", "Registered"}
        /\ LangItemOf(its[i].s).t \in {"Import", "ImportDefault"}}

\* A nested Tokens with an import in it.
NestedTokens == extend(<<>>, <<Literal("a"), Space, LangBox("y")>>)

\* The imports of a x a, a local name, the nested a y, p and a.
WalkNested ==
    walk_imports(
        literal(push(item(extend(
            extend(<<>>, <<Literal("a"), Space, LangBox("x"), Space,
                           Literal("a"), Push, LangBox("v")>>),
            NestedTokens), LangBox("p"))), "a"))
      = <<"x", "y", "p">>

\* C21: walk_imports yields the import of every LangBox and Registered
\* item that has one, in stream order and once per occurrence, and
\* nothing else; the imports of a Tokens spliced into the stream are
\* yielded at the place of the splice: a x a, the nested a y, p, a yields
\* x, y, p.
C21_WalkImportsInOrder ==
    LET w == walk_imports(items)
        pos == Ascending(ImportPositions(items))
    IN  /\ Len(w) = Len(pos)
        /\ \A j \in 1..Len(w) : w[j] = items[pos[j]].s
        /\ \A i \in 0..Len(items) :
              LET head == SubSeq(items, 1, i)
                  tail == SubSeq(items, i + 1, Len(items))
              IN  walk_imports(extend(head, tail))
                      = walk_imports(head) \o walk_imports(tail)
        /\ WalkNested

\* format_file has walked a stream that refers to one import twice, once
\* registered only, and to a local name: the import is yielded twice.
C21_Witness ==
    /\ lastOp = "format_file"
    /\ items = <<LangBox("x"), LangBox("v"), Registered("x")>>
    /\ walk_imports(items) = <<"x", "x">>

FileText == f.sink.out

\* An import statement of a text begins at its `import` and ends at the
\* first `;` behind it.
StatementStarts(out) == {i \in 1..Len(out) : out[i] = "import"}

StatementEnd(out, i) ==
    CHOOSE j \in i..Len(out) :
        out[j] = ";" /\ \A k \in i..(j - 1) : out[k] # ";"

StatementAt(out, i) == SubSeq(out, i, StatementEnd(out, i))

\* The statements of a text, in the order of the text.
StatementsOf(out) ==
    LET starts == Ascending(StatementStarts(out))
    IN  [j \in 1..Len(starts) |-> StatementAt(out, starts[j])]

\* The module of a statement: the text between the quotes before the `;`.
ModuleOf(st) == st[Len(st) - 2]

\* The named entries of a statement begin behind the `{` and behind every
\* `, ` that follows it.
EntryStarts(st) ==
    {i \in 2..Len(st) :
        /\ st[i] \notin {"{", "}"}
        /\ \/ st[i - 1] = "{"
           \/ /\ i > 2
              /\ st[i - 2] = ","
              /\ st[i - 1] = " "
              /\ \E k \in 1..(i - 1) : st[k] = "{"}

EntryAt(st, i) ==
    [name |-> st[i],
     alias |-> IF i + 4 <= Len(st) /\ st[i + 1] = " " /\ st[i + 2] = "as"
               THEN st[i + 4] ELSE ""]

\* The named entries of a statement, in the order of the text.
Entries(st) ==
    LET pos == Ascending(EntryStarts(st))
    IN  [j \in 1..Len(pos) |-> EntryAt(st, pos[j])]

\* What a stream imports: its imports, their modules, and of one module
\* the (name, alias) pairs and the default names.
ImportsIn(its) == {LangItemOf(its[i].s) : i \in ImportPositions(its)}

ModulesIn(its) == {imp.module : imp \in ImportsIn(its)}

NamedIn(its, m) ==
    {[name |-> imp.name, alias |-> imp.alias] :
        imp \in {q \in ImportsIn(its) : q.t = "Import" /\ q.module = m}}

DefaultsIn(its, m) ==
    {imp.name :
        imp \in {q \in ImportsIn(its) :
                    q.t = "ImportDefault" /\ q.module = m}}

\* C23: import collation fails with an error when two default imports of
\* one module with different names are collected, and keeps neither; without
\* such a pair it succeeds, and a default import collected more than once
\* is rendered once.
C23_DefaultConflictIsError ==
    lastOp = "format_file" =>
        IF \E m \in ModulesIn(items) : Cardinality(DefaultsIn(items, m)) > 1
        THEN pc = "fault" /\ f.res = "err"
        ELSE /\ pc = "done"
             /\ \A j \in 1..Len(StatementsOf(FileText)) :
                  LET st == StatementsOf(FileText)[j]
                  IN  \A d \in DefaultsIn(items, ModuleOf(st)) :
                        /\ st[3] = d
                        /\ Cardinality({k \in 1..Len(st) : st[k] = d}) = 1

\* The stream with the items at i and i + 1 in each other's place.
Swap(its, i) == [its EXCEPT ![i] = its[i + 1], ![i + 1] = its[i]]

\* C24: the rendered import preamble does not depend on the order in
\* which the imports are met, default imports included: exchanging two
\* neighbours of the stream leaves the preamble as it is.
C24_InsertionOrderIndependent ==
    lastOp = "format_file" =>
        \A i \in 1..(Len(items) - 1) :
            Rendered(imports(Swap(items, i))) = Rendered(imports(items))

\* The preamble of r of "o", x of "m" and p of "n".
ThreeModules ==
    Rendered(imports(<<LangBox("r"), LangBox("x"), LangBox("p")>>))
      = <<"import", " ", "{", "x", "}", " ", "from", " ",
          "\"", "m", "\"", ";", "\n",
          "import", " ", "{", "p", "}", " ", "from", " ",
          "\"", "n", "\"", ";", "\n",
          "import", " ", "{", "r", "}", " ", "from", " ",
          "\"", "o", "\"", ";">>

\* C25: the rendered file holds one import statement for each module
\* among the imports of the stream, each module once, and the statements
\* are in ascending order of the module: r of "o", x of "m" and p of "n"
\* render as the statements of "m", "n" and "o".
C25_OneStatementPerModule ==
    /\ lastOp = "format_file" =>
         LET sts == StatementsOf(FileText)
         IN  /\ Len(sts) = Cardinality(ModulesIn(items))
             /\ {ModuleOf(sts[j]) : j \in 1..Len(sts)} = ModulesIn(items)
             /\ \A j \in 1..(Len(sts) - 1) :
                  StrLt(ModuleOf(sts[j]), ModuleOf(sts[j + 1]))
    /\ ThreeModules

\* The imports of three modules, met in another order than the lexical
\* one, are rendered in the lexical one.
C25_Witness ==
    /\ lastOp = "format_file"
    /\ items = <<LangBox("r"), LangBox("x"), LangBox("p")>>
    /\ Len(StatementsOf(FileText)) = 3
    /\ ModuleOf(StatementsOf(FileText)[1]) = "m"
    /\ ModuleOf(StatementsOf(FileText)[3]) = "o"

\* C26: the named entries of every import statement are in lexical order
\* of their name, entries of one name in the order of their alias, an
\* entry without alias first.
C26_EntriesInNameOrder ==
    lastOp = "format_file" =>
        \A j \in 1..Len(StatementsOf(FileText)) :
            LET es == Entries(StatementsOf(FileText)[j])
            IN  \A k \in 1..(Len(es) - 1) : ElemLt_by_name(es[k], es[k + 1])

\* The preamble of x, x as z and x again.
PlainAndAliased ==
    Rendered(imports(<<LangBox("x"), LangBox("z"), LangBox("x")>>))
      = <<"import", " ", "{", "x", ",", " ", "x", " ", "as", " ", "z",
          "}", " ", "from", " ", "\"", "m", "\"", ";">>

\* C27: every import statement lists each (name, alias) pair among the
\* named imports of its module once, however often it was collected, and
\* rendering succeeds; x and x as z are two entries: x, x as z and x again
\* render as `import {x, x as z} from "m";`.
C27_EntriesOnce ==
    /\ lastOp = "format_file" =>
         /\ pc = "done"
         /\ \A j \in 1..Len(StatementsOf(FileText)) :
              LET st == StatementsOf(FileText)[j]
                  es == Entries(st)
              IN  /\ {es[k] : k \in 1..Len(es)} = NamedIn(items, ModuleOf(st))
                  /\ Len(es) = Cardinality(NamedIn(items, ModuleOf(st)))
    /\ PlainAndAliased

\* A name is imported twice as it is and once under an alias: the
\* statement lists two entries.
C27_Witness ==
    /\ lastOp = "format_file"
    /\ pc = "done"
    /\ items = <<LangBox("x"), LangBox("z"), LangBox("x")>>
    /\ Len(Entries(StatementsOf(FileText)[1])) = 2

\* The preamble of the default import d, and of d with x and x as z.
DefaultAlone ==
    Rendered(imports(<<LangBox("d")>>))
      = <<"import", " ", "d", " ", "from", " ", "\"", "m", "\"", ";">>

DefaultAndNamed ==
    Rendered(imports(<<LangBox("x"), LangBox("d"), LangBox("z")>>))
      = <<"import", " ", "d", ",", " ", "{", "x", ",", " ",
          "x", " ", "as", " ", "z", "}", " ", "from", " ",
          "\"", "m", "\"", ";">>

\* C28: an import statement begins with the default name if its module
\* has one; the brace block follows if the module has named entries and
\* is left out if it has none; a comma stands between the two exactly if
\* both are there: d alone renders as `import d from "m";`, d with x and
\* x as z as `import d, {x, x as z} from "m";`.
C28_StatementShape ==
    /\ lastOp = "format_file" =>
         \A j \in 1..Len(StatementsOf(FileText)) :
            LET st == StatementsOf(FileText)[j]
                ds == DefaultsIn(items, ModuleOf(st))
                ns == NamedIn(items, ModuleOf(st))
                opens == {k \in 1..Len(st) : st[k] = "{"}
                closes == {k \in 1..Len(st) : st[k] = "}"}
                tail == <<" ", "from", " ", "\"", ModuleOf(st), "\"", ";">>
            IN  /\ st[1] = "import" /\ st[2] = " "
                /\ SubSeq(st, Len(st) - 6, Len(st)) = tail
                /\ IF ds # {} THEN st[3] \in ds ELSE st[3] = "{"
                /\ st[4] = "," <=> ds # {} /\ ns # {}
                /\ ns = {} => opens = {} /\ closes = {} /\ Len(st) = 10
                /\ ns # {} =>
                     /\ opens = {IF ds = {} THEN 3 ELSE 6}
                     /\ closes = {Len(st) - 7}
                     /\ ds # {} => st[5] = " "
                     /\ Len(Entries(st)) > 0
                     /\ Cardinality({k \in 1..Len(st) : st[k] = ","})
                          = Len(Entries(st)) - 1 + (IF ds = {} THEN 0 ELSE 1)
    /\ DefaultAlone
    /\ DefaultAndNamed

\* One file has a statement with a default name alone and one with named
\* entries alone.
C28_Witness ==
    /\ lastOp = "format_file"
    /\ items = <<LangBox("d"), LangBox("p")>>
    /\ StatementsOf(FileText)[1]
         = <<"import", " ", "d", " ", "from", " ", "\"", "m", "\"", ";">>
    /\ StatementsOf(FileText)[2][3] = "{"

\* C29: format_file writes the preamble, a blank line and the body if
\* the stream has an import and its body has text, the preamble alone if
\* the body has none, and what format writes if the stream has no import.
C29_BlankLineAfterPreamble ==
    lastOp = "format_file" =>
        LET preamble == Rendered(imports(items))
            body == Rendered(items)
        IN  /\ ImportPositions(items) # {} <=> preamble # <<>>
            /\ FileText = IF ImportPositions(items) = {} THEN body
                          ELSE IF body = <<>> THEN preamble
                          ELSE preamble \o <<"\n", "\n">> \o body

\* A file with an import and a body: the body is behind a blank line.
C29_Witness ==
    /\ lastOp = "format_file"
    /\ items = <<Literal("a"), LangBox("x")>>
    /\ FileText = <<"import", " ", "{", "x", "}", " ", "from", " ",
                    "\"", "m", "\"", ";", "\n", "\n", "a", "x">>

\* A JavaScript string literal decoded: the characters between the double
\* quotes, every escape sequence replaced by the character it stands for
\* (\b is U+0008 and \f is U+000C); <<"invalid">> if the text is no string
\* literal.
RECURSIVE js_unescape(_)
js_unescape(cs) ==
    IF cs = <<>> THEN <<>>
    ELSE IF Head(cs) = "\\"
         THEN IF Len(cs) = 1 THEN <<"invalid">>
              ELSE LET c == cs[2]
                       ch == CASE c = "t" -> "\t"
                               [] c = "b" -> Char08
                               [] c = "n" -> "\n"
                               [] c = "r" -> "\r"
                               [] c = "f" -> Char0C
                               [] OTHER -> c
                   IN  <<ch>> \o js_unescape(Tail(Tail(cs)))
         ELSE IF Head(cs) \in {"\"", "\n", "\r"} THEN <<"invalid">>
         ELSE <<Head(cs)>> \o js_unescape(Tail(cs))

js_decode(lit) ==
    IF Len(lit) < 2 \/ Head(lit) # "\"" \/ Last(lit) # "\""
    THEN <<"invalid">>
    ELSE js_unescape(SubSeq(lit, 2, Len(lit) - 1))

\* C30: quote_string writes a double-quoted literal that, decoded as a
\* JavaScript string literal, is the input string.
C30_QuoteStringFaithful ==
    lastOp = "quote_string" => js_decode(FileText) = TextOf(items)

\* ------------------------------------------------------------------------
\* Properties of the frame stack and of the end of format.

\* The number of calls of the hook h so far.
HookCount(h) == Cardinality({i \in 1..Len(f.calls) : f.calls[i].h = h})

\* The number of items of kind k the cursor has consumed.
Consumed(k) == Cardinality({i \in 1..f.cur : items[i].k = k})

\* The iteration at hand matches an item and does not fault.
Accepted == pc = "format" /\ f.cur < Len(items) /\ f'.res # "err"

\* C31: during format the frame stack is never empty and its bottom frame
\* is the default one: the depth is 1 plus the OpenEval items that pushed
\* a frame (those that called start_string_eval) minus the CloseEval items
\* that popped one (those that called end_string_eval), so it is at most 1
\* plus the OpenEval items consumed; the depth changes only on an OpenEval
\* that takes the frame path (by +1) and on a CloseEval (by -1).
C31_FrameStackDepth ==
    /\ [](pc # "build" =>
            /\ Len(f.stack) >= 1
            /\ ~f.stack[1].end_on_eval
            /\ Len(f.stack) = 1 + HookCount("start_string_eval")
                                - HookCount("end_string_eval")
            /\ Len(f.stack) <= 1 + Consumed("OpenEval"))
    /\ [][pc = "format" =>
            Len(f'.stack) - Len(f.stack) =
                IF ~Accepted THEN 0
                ELSE IF NextItem.k = "OpenEval"
                        /\ ~PeekLiteralCloseEval(items, f.cur + 1) THEN 1
                ELSE IF NextItem.k = "CloseEval" THEN -1
                ELSE 0]_vars

\* A quote with an interpolation that holds a quote with an interpolation:
\* three frames are on the stack when the stream ends.
C31_Witness ==
    /\ pc = "done"
    /\ items = <<OpenQuote(TRUE), OpenEval, OpenQuote(TRUE), OpenEval>>
    /\ Len(f.stack) = 3

\* The position of the OpenQuote that opened the quote open behind the
\* first i items: the last OpenQuote among them that is not inside an
\* interpolation opened and closed since (d is the number of CloseEval
\* items passed on the way back whose OpenEval is still to come).
RECURSIVE Opener(_, _, _)
Opener(its, i, d) ==
    IF i = 0 THEN 0
    ELSE CASE its[i].k = "CloseEval" -> Opener(its, i - 1, d + 1)
           [] its[i].k = "OpenEval" -> Opener(its, i - 1, d - 1)
           [] its[i].k = "OpenQuote" /\ d = 0 -> i
           [] OTHER -> Opener(its, i - 1, d)

\* C32: a CloseQuote that is accepted calls the quote-close hook, and
\* nothing else, with the interpolation flag of the OpenQuote that opened
\* the quote, whatever eval frames were opened and closed in between, and
\* leaves the frame out of quote with its flag false.
C32_CloseQuoteFlag ==
    [][AtKind("CloseQuote") /\ f'.res # "err" =>
          LET e == items[Opener(items, f.cur, 0)].e
          IN  /\ f'.calls = Append(f.calls, HookCall("close_quote", e, ""))
              /\ Len(f'.stack) = Len(f.stack)
              /\ ~Last(f'.stack).in_quote
              /\ ~Last(f'.stack).has_eval]_vars

\* An interpolated quote is closed behind an eval frame that was opened
\* and closed inside it.
C32_Witness ==
    /\ pc = "done"
    /\ items = <<OpenQuote(TRUE), OpenEval, CloseEval, CloseQuote>>
    /\ Last(f.calls) = HookCall("close_quote", TRUE, "")
    /\ HookCount("end_string_eval") = 1
    /\ ~TopFrame.has_eval

\* ------------------------------------------------------------------------
\* Algebraic properties of the insertion operations.

\* item(x) called for each of the first n items of it, in order.
RECURSIVE ItemEach(_, _, _)
ItemEach(its, it, n) ==
    IF n = 0 THEN its ELSE item(ItemEach(its, it, n - 1), it[n])

\* C33: extend leaves the stream that item(x) for each x in order leaves,
\* and collecting an iterator of items leaves the stream extend leaves on
\* an empty Tokens, so both coalesce: collecting Push, Push gives one Push
\* and collecting Space, Space, Push, Line gives Space, Line.
C33_ExtendIsItemEach ==
    /\ pc = "build" =>
         \A it \in ExtendInputs(Len(items)) :
            /\ extend(items, it) = ItemEach(items, it, Len(it))
            /\ from_iter(it) = ItemEach(<<>>, it, Len(it))
    /\ lastOp = "extend" =>
         \E it \in ExtendInputs(Len(prev)) :
            items = ItemEach(prev, it, Len(it))
    /\ from_iter(<<Push, Push>>) = <<Push>>
    /\ from_iter(<<Space, Space, Push, Line>>) = <<Space, Line>>

\* extend has been called with Push, Push behind a literal and has left
\* one Push.
C33_Witness ==
    /\ lastOp = "extend"
    /\ prev = <<Literal("a")>>
    /\ items = <<Literal("a"), Push>>
    /\ items = extend(prev, <<Push, Push>>)

\* C34: format does not check balance at the end of the stream: once the
\* cursor is exhausted it returns Ok and leaves stack, sink and hook calls
\* as they are, whether or not the top frame is in quote or eval frames
\* remain; a fault is always the fault of the item consumed last, which is
\* illegal in the frame on top.
C34_NoBalanceCheck ==
    /\ [](pc = "fault" =>
            /\ f.cur >= 1
            /\ Illegal(items[f.cur], TopFrame))
    /\ [][pc = "format" /\ f.cur >= Len(items) =>
            /\ pc' = "done"
            /\ f' = [f EXCEPT !.res = "ok"]]_vars

\* The stream has ended inside a quote that is inside an interpolation,
\* and format has returned Ok.
C34_Witness ==
    /\ pc = "done"
    /\ f.res = "ok"
    /\ items = <<OpenQuote(TRUE), OpenEval, OpenQuote(FALSE)>>
    /\ Len(f.stack) = 2
    /\ TopFrame.in_quote

\* C35: a CloseEval met in an eval frame whose quote is still open is
\* accepted: the interpolation-end hook is called and nothing else, the
\* frame is popped and the loop goes on; the quote-close hook is called by
\* accepted CloseQuote items only, so never for the quote left open.
C35_CloseEvalInOpenQuote ==
    /\ [](pc # "build" =>
            HookCount("close_quote") =
                Consumed("CloseQuote")
                  - (IF pc = "fault" /\ items[f.cur].k = "CloseQuote"
                     THEN 1 ELSE 0))
    /\ [][AtKind("CloseEval") /\ TopFrame.end_on_eval /\ TopFrame.in_quote =>
            /\ pc' = "format"
            /\ f'.res = "run"
            /\ f'.stack = Front(f.stack)
            /\ f'.calls =
                  Append(f.calls, HookCall("end_string_eval", FALSE, ""))]_vars

\* An interpolation opens a quote and ends without closing it: format
\* returns Ok with the quote-close hook never called.
C35_Witness ==
    /\ pc = "done"
    /\ f.res = "ok"
    /\ items = <<OpenQuote(TRUE), OpenEval, OpenQuote(FALSE), CloseEval>>
    /\ Len(f.stack) = 1
    /\ HookCount("open_quote") = 2
    /\ HookCount("close_quote") = 0
    /\ Last(f.calls).h = "end_string_eval"

\* C38: indent() and unindent() never wrap the stored delta: behind a
\* stream that ends in Indentation(d) the call returns and the stream
\* ends in Indentation(d + 1), respectively Indentation(d - 1), as
\* integers (the Indentation is gone if that is zero).
C38_DeltaNeverWraps ==
    lastOp \in {"indent", "unindent"} /\ EndsWith(prev, "Indentation") =>
        LET d == Last(prev).n + (IF lastOp = "indent" THEN 1 ELSE -1)
        IN  /\ pc = "build"
            /\ items = IF d = 0 THEN Front(prev)
                       ELSE Append(Front(prev), Indentation(d))

\* indent() then unindent(), and unindent() then indent(), on the streams
\* whose trailing delta is at a limit of the 16-bit range, where both calls
\* return (a build without overflow checks).
RoundTripAtLimits ==
    \A its \in IndentStreams :
        /\ unindent(indent(its)) = its
        /\ indent(unindent(its)) = its

C37_PushLineIsLine ==
    /\ [](pc = "build" =>
            /\ line(push(items)) = line(items)
            /\ push(line(items)) = line(items))
    /\ [][\/ lastOp = "push" /\ lastOp' = "line"
          \/ lastOp = "line" /\ lastOp' = "push"
          => items' = line(prev)]_vars

\* line() has been called behind a push() that had appended a Push: the
\* stream is the one line() alone leaves.
C37_Witness ==
    /\ lastOp = "line"
    /\ prev = <<Literal("a"), Push>>
    /\ items = <<Literal("a"), Line>>
    /\ items = line(Front(prev))

\* ------------------------------------------------------------------------
\* Termination of format.

\* The iteration at hand takes the direct path of a literal interpolation.
DirectPath ==
    /\ NextItem.k = "OpenEval"
    /\ TopFrame.in_quote
    /\ PeekLiteralCloseEval(items, f.cur + 1)

\* C39: format terminates on every stream: every iteration moves the
\* cursor forward, by three items on the direct path of a literal
\* interpolation and by one item otherwise, and never beyond the end; the
\* call ends with Ok when the items are exhausted and with an error at the
\* first item that faults, and that it does end.
C39_FormatTerminates ==
    /\ <>(pc \in {"done", "fault"})
    /\ [](/\ f.cur <= Len(items)
          /\ pc = "done" => f.cur = Len(items) /\ f.res = "ok"
          /\ pc = "fault" => f.res = "err"
          /\ pc = "format" => f.res = "run")
    /\ [][pc = "format" =>
            IF f.cur >= Len(items)
            THEN pc' = "done" /\ f'.cur = f.cur
            ELSE /\ f'.cur = f.cur + (IF DirectPath THEN 3 ELSE 1)
                 /\ pc' \in {"format", "fault"}]_vars

\* format has ended on a stream with a literal interpolation, whose three
\* items it consumed in one iteration.
C39_Witness ==
    /\ pc = "done"
    /\ items = <<OpenQuote(TRUE), OpenEval, Literal("\""), CloseEval,
                 CloseQuote>>
    /\ f.cur = Len(items)
    /\ Len(f.calls) = 3
    /\ HookCount("string_eval_literal") = 1

====
